---- MODULE Spec2Model ----
(***************************************************************************)
(* Model of the AddBusiness page (client/src/pages/AddBusiness.tsx): the   *)
(* record builder (the form state and its update handlers), the            *)
(* single-record submit and the spreadsheet bulk-import pipeline.          *)
(*                                                                         *)
(* JavaScript values are encoded with strings only, so that any two values *)
(* of the model can be compared:                                           *)
(*   null                       the string "null"                          *)
(*   a missing object property  the string "<absent>"                      *)
(*   an array element           [kind, props], kind one of "object",       *)
(*                              "undefined" (the value undefined) and      *)
(*                              "hole" (an index the sparse array lacks)   *)
(* A JavaScript array is a sequence; JavaScript index i is position i + 1. *)
(***************************************************************************)
EXTENDS Integers, Sequences, FiniteSets, TLC

VARIABLES
    formData,     \* useState<BusinessForm>, line 64
    importError,  \* useState<string | null>, line 65
    route,        \* where the router is: this page, or the target of navigate()
    nodeEnv,      \* process.env.NODE_ENV, fixed at build time
    submits,      \* one entry per handleSubmit call: its position and its effects
    imports,      \* one entry per file-input change event: its position and effects
    refList,      \* reference list replaying the machinery operations
    lastOp        \* the machinery operation called last, and its index

vars == <<formData, importError, route, nodeEnv, submits, imports, refList, lastOp>>

(***************************************************************************)
(* Bounds of the model.                                                    *)
(***************************************************************************)
MaxMachines == 3      \* longest machinery list explored
MaxSubmits == 1       \* handleSubmit calls explored
MaxFileEvents == 2    \* file-input change events explored

(***************************************************************************)
(* Data model, lines 18-60.                                                *)
(***************************************************************************)
Absent == "<absent>"

MachineFields == {"name", "description", "manufacturer", "yearOfManufacture", "specifications"}

\* The field names and the values the change events of the model carry.
InputNames == {"name", "manufacturer"}
InputValues == {"Lathe", "Mill"}

initialMachineForm ==
    [name |-> "", description |-> "", manufacturer |-> "",
     yearOfManufacture |-> "", specifications |-> ""]

initialBusinessForm ==
    [name |-> "", corporateId |-> "", phone |-> "", website |-> "",
     description |-> "", businessType |-> "", location |-> "", email |-> "",
     isOpen |-> TRUE, openToNewBusiness |-> TRUE, machinery |-> <<>>]

\* The top-level fields the change events of the model write.
BusinessInputNames == {"name"}
BusinessInputValues == {"", "Acme"}
SwitchNames == {"isOpen"}

(***************************************************************************)
(* JavaScript array and object primitives the handlers use.                *)
(***************************************************************************)
NoProps == [f \in MachineFields |-> Absent]
HoleElem == [kind |-> "hole", props |-> NoProps]
UndefinedElem == [kind |-> "undefined", props |-> NoProps]
Obj(props) == [kind |-> "object", props |-> props]

\* [...arr]: the iterator visits every index below length; a hole reads undefined.
SpreadArray(arr) ==
    [k \in 1..Len(arr) |-> IF arr[k].kind = "hole" THEN UndefinedElem ELSE arr[k]]

\* arr[index] read: undefined at a hole and beyond the length.
ElementAt(arr, index) ==
    IF index + 1 <= Len(arr) /\ arr[index + 1].kind = "object"
    THEN arr[index + 1] ELSE UndefinedElem

\* {...elem}: the own properties of an object; none for undefined.
SpreadObject(elem) == IF elem.kind = "object" THEN elem.props ELSE NoProps

\* arr[index] = elem: beyond the length the array grows to index + 1 and the
\* indices in between become holes.
AssignIndex(arr, index, elem) ==
    [k \in 1..(IF index + 1 > Len(arr) THEN index + 1 ELSE Len(arr)) |->
        IF k = index + 1 THEN elem
        ELSE IF k <= Len(arr) THEN arr[k] ELSE HoleElem]

\* arr.filter((_, i) => i !== index): visits the indices in order, skips holes,
\* keeps the elements whose index differs.
RECURSIVE FilterNotIndex(_, _, _)
FilterNotIndex(arr, index, i) ==
    IF i >= Len(arr) THEN <<>>
    ELSE IF arr[i + 1].kind # "hole" /\ i # index
         THEN <<arr[i + 1]>> \o FilterNotIndex(arr, index, i + 1)
         ELSE FilterNotIndex(arr, index, i + 1)

(***************************************************************************)
(* Record builder: the state updaters, lines 67-109.                       *)
(***************************************************************************)
\* setFormData(prev => ({...prev, [name]: value})), lines 69-72
SetField(prev, name, value) == [prev EXCEPT ![name] = value]

\* lines 84-94
MachineChanged(prev, index, name, value) ==
    LET newMachinery == SpreadArray(prev.machinery)
        changed == Obj([SpreadObject(ElementAt(newMachinery, index)) EXCEPT ![name] = value])
    IN  [prev EXCEPT !.machinery = AssignIndex(newMachinery, index, changed)]

\* lines 98-101
MachineAdded(prev) ==
    [prev EXCEPT !.machinery = Append(SpreadArray(prev.machinery), Obj(initialMachineForm))]

\* A removeMachine whose filter compares against the wrong index.
MachineRemovedOffByOne(prev, index) ==
    [prev EXCEPT !.machinery = FilterNotIndex(prev.machinery, index + 1, 0)]

\* lines 105-108
MachineRemoved(prev, index) ==
    [prev EXCEPT !.machinery = FilterNotIndex(prev.machinery, index, 0)]

(***************************************************************************)
(* The reference: a plain ordered list of machine records.                 *)
(***************************************************************************)
RefAdd(list) == list \o <<initialMachineForm>>
RefRemove(list, index) == SubSeq(list, 1, index) \o SubSeq(list, index + 2, Len(list))
RefSet(list, index, name, value) ==
    [k \in 1..Len(list) |->
        IF k = index + 1
        THEN [f \in MachineFields |-> IF f = name THEN value ELSE list[k][f]]
        ELSE list[k]]
\* The machinery array that holds exactly the machines of a reference list.
AsArray(list) == [k \in 1..Len(list) |-> Obj(list[k])]
InRange(list, index) == index >= 0 /\ index < Len(list)

(***************************************************************************)
(* JSON.stringify, as far as the two request bodies need it: an object is  *)
(* its properties in insertion order, a hole or undefined in an array is   *)
(* null, a missing property is left out.                                   *)
(***************************************************************************)
RECURSIVE JoinWith(_, _)
JoinWith(parts, sep) ==
    IF parts = <<>> THEN ""
    ELSE IF Len(parts) = 1 THEN parts[1]
    ELSE parts[1] \o sep \o JoinWith(Tail(parts), sep)

Quote(s) == "\"" \o s \o "\""
Member(key, json) == Quote(key) \o ":" \o json
JsonBool(b) == IF b THEN "true" ELSE "false"

\* The insertion order of initialMachineForm and of initialBusinessForm; the
\* spreads of the updaters keep it.  (An object handleMachineChange creates
\* beyond the length lists its properties in the order they were set
\* instead; no request of the model carries one.)
MachineFieldOrder == <<"name", "description", "manufacturer", "yearOfManufacture", "specifications">>
BusinessStringOrder ==
    <<"name", "corporateId", "phone", "website", "description", "businessType", "location", "email">>

StringifyMachine(elem) ==
    IF elem.kind # "object" THEN "null"
    ELSE LET present == SelectSeq(MachineFieldOrder, LAMBDA f : elem.props[f] # Absent)
         IN  "{" \o JoinWith([k \in 1..Len(present) |->
                        Member(present[k], Quote(elem.props[present[k]]))], ",") \o "}"

\* JSON.stringify(formData), line 123
StringifyBusiness(form) ==
    "{" \o JoinWith(
        [k \in 1..Len(BusinessStringOrder) |->
            Member(BusinessStringOrder[k], Quote(form[BusinessStringOrder[k]]))]
        \o << Member("isOpen", JsonBool(form.isOpen)),
              Member("openToNewBusiness", JsonBool(form.openToNewBusiness)),
              Member("machinery", "[" \o JoinWith(
                  [k \in 1..Len(form.machinery) |-> StringifyMachine(form.machinery[k])],
                  ",") \o "]") >>, ",") \o "}"

\* A row-object of sheet_to_json is a sequence of <<header, cell>> pairs.
StringifyRow(row) ==
    "{" \o JoinWith([k \in 1..Len(row) |-> Member(row[k][1], Quote(row[k][2]))], ",") \o "}"

\* JSON.stringify({ businesses: jsonData }), line 161
StringifyBulk(jsonData) ==
    "{" \o Member("businesses",
        "[" \o JoinWith([k \in 1..Len(jsonData) |-> StringifyRow(jsonData[k])], ",") \o "]")
    \o "}"

(***************************************************************************)
(* Endpoints, lines 114-118 and 151-156.                                   *)
(***************************************************************************)
ApiUrl ==
    IF nodeEnv = "production" THEN "${REACT_APP_API_URL_PROD}" ELSE "${REACT_APP_API_URL}"
SubmitUrl == ApiUrl \o "/api/businesses"
BulkUrl == ApiUrl \o "/api/businesses/bulk"

FormRoute == "<this page>"
ListingRoute == "/businesses"

(***************************************************************************)
(* What a file-input change event carries and what a read delivers.        *)
(***************************************************************************)
NoFile == "<no file>"
Files == {"businesses.xlsx"}

\* The content a completed read hands to onload: XLSX.read / sheet_to_json
\* (lines 146-149) either throw on it or produce its row-objects.
JoeRow == << <<"name", "Joe's Shop">>, <<"phone", "555-1234">> >>
FileContents ==
    { [decodes |-> FALSE, rows |-> <<>>],
      [decodes |-> TRUE, rows |-> <<JoeRow>>] }

ReadErrorMessage == "Error reading file"
ImportFailedMessage == "Failed to import businesses. Please check your spreadsheet format."
ProcessingErrorMessage == "Error processing file"

Request(url, body) == [method |-> "POST", url |-> url, body |-> body]

TypeOK ==
    /\ importError \in {"null", ReadErrorMessage, ImportFailedMessage, ProcessingErrorMessage}
    /\ route \in {FormRoute, ListingRoute}
    /\ nodeEnv \in {"production", "development"}
    /\ Len(submits) <= MaxSubmits
    /\ Len(imports) <= MaxFileEvents
    /\ Len(formData.machinery) <= MaxMachines

Init ==
    /\ formData = initialBusinessForm
    /\ importError = "null"
    /\ route = FormRoute
    /\ nodeEnv \in {"production", "development"}
    /\ submits = <<>>
    /\ imports = <<>>
    /\ refList = <<>>
    /\ lastOp = [op |-> "none", index |-> 0]

(***************************************************************************)
(* Record builder handlers.  The controls exist only while the page is     *)
(* shown, so every user event requires route = FormRoute.                  *)
(***************************************************************************)
\* lines 67-73
handleInputChange(name, value) ==
    /\ route = FormRoute
    /\ formData' = SetField(formData, name, value)
    /\ UNCHANGED <<importError, route, nodeEnv, submits, imports, refList, lastOp>>

\* lines 75-80
handleSwitchChange(name, checked) ==
    /\ route = FormRoute
    /\ formData' = SetField(formData, name, checked)
    /\ UNCHANGED <<importError, route, nodeEnv, submits, imports, refList, lastOp>>

\* lines 82-95; the reference replays the call when it names an existing element
handleMachineChange(index, name, value) ==
    /\ route = FormRoute
    /\ formData' = MachineChanged(formData, index, name, value)
    /\ refList' = IF InRange(refList, index) THEN RefSet(refList, index, name, value)
                  ELSE refList
    /\ lastOp' = [op |-> "set", index |-> index]
    /\ UNCHANGED <<importError, route, nodeEnv, submits, imports>>

\* lines 97-102
addMachine ==
    /\ route = FormRoute
    /\ Len(formData.machinery) < MaxMachines
    /\ formData' = MachineAdded(formData)
    /\ refList' = RefAdd(refList)
    /\ lastOp' = [op |-> "add", index |-> 0]
    /\ UNCHANGED <<importError, route, nodeEnv, submits, imports>>

\* lines 104-109
removeMachine(index) ==
    /\ route = FormRoute
    /\ formData' = MachineRemoved(formData, index)
    /\ refList' = IF InRange(refList, index) THEN RefRemove(refList, index) ELSE refList
    /\ lastOp' = [op |-> "remove", index |-> index]
    /\ UNCHANGED <<importError, route, nodeEnv, submits, imports>>

(***************************************************************************)
(* Single-record submit, lines 111-134.  An entry of submits is one call:  *)
(* the record it was triggered with, how its fetch settled, what it did.   *)
(***************************************************************************)
\* A submit that serialises the initial record instead of the current one.
SubmitRequestOfInitialRecord(form) ==
    Request(SubmitUrl, StringifyBusiness(initialBusinessForm))

\* The try block up to the await: the request is issued with the form record
\* of the render the event belongs to.
SubmitRequest(form) == Request(SubmitUrl, StringifyBusiness(form))

\* The browser runs onSubmit only when the required name field (line 233) is
\* filled in.
handleSubmit ==
    /\ route = FormRoute
    /\ formData.name # ""
    /\ Len(submits) < MaxSubmits
    /\ submits' = Append(submits,
           [formAtTrigger |-> formData, response |-> "pending",
            requests |-> <<SubmitRequest(formData)>>,
            navigated |-> FALSE, logged |-> "none"])
    /\ UNCHANGED <<formData, importError, route, nodeEnv, imports, refList, lastOp>>

\* How a fetch settles: resolved with a success status, resolved with another
\* status, rejected.
FetchOutcomes == {"ok", "notOk", "networkError"}

\* line 130
SubmitSucceeded(s) ==
    /\ submits' = [submits EXCEPT ![s].response = "ok", ![s].navigated = TRUE]
    /\ route' = ListingRoute
    /\ UNCHANGED <<formData, importError, nodeEnv, imports, refList, lastOp>>

\* A submit whose catch block surfaces the failure the way the import does.
SubmitFailedSurfaced(s, outcome) ==
    /\ submits' = [submits EXCEPT ![s].response = outcome,
                                  ![s].logged = "Error creating business:"]
    /\ importError' = "Failed to create business"
    /\ UNCHANGED <<formData, route, nodeEnv, imports, refList, lastOp>>

\* lines 126-128 and the catch of lines 131-133
SubmitFailed(s, outcome) ==
    /\ submits' = [submits EXCEPT ![s].response = outcome,
                                  ![s].logged = "Error creating business:"]
    /\ UNCHANGED <<formData, importError, route, nodeEnv, imports, refList, lastOp>>

SubmitSettles(s, outcome) ==
    /\ submits[s].response = "pending"
    /\ IF outcome = "ok" THEN SubmitSucceeded(s) ELSE SubmitFailed(s, outcome)

\* The Cancel button, line 339
Cancel ==
    /\ route = FormRoute
    /\ route' = ListingRoute
    /\ UNCHANGED <<formData, importError, nodeEnv, submits, imports, refList, lastOp>>

(***************************************************************************)
(* Import pipeline, lines 136-186.  An entry of imports is the pipeline of *)
(* one change event.  state is its position: Idle (no file), Reading,      *)
(* Submitting (the bulk POST is sent), ParsingBody (response.json()        *)
(* pending), Done (navigated), Error (a message was set), Rejected (onload *)
(* threw: its promise rejected and nothing handles it).  read, decode,     *)
(* response and parse record what the reader, the decoder, the fetch and   *)
(* response.json() delivered; the other fields what the pipeline did.      *)
(***************************************************************************)
NewImport(file, state, read) ==
    [file |-> file, state |-> state, read |-> read, decode |-> "none",
     response |-> "none", parse |-> "none", requests |-> <<>>,
     navigated |-> FALSE, setError |-> "null", logged |-> "none"]

InFlight(attempt) == attempt.state \in {"Reading", "Submitting", "ParsingBody"}

\* An early return placed before the error is cleared.
FileEventWithoutFileKeepsError ==
    /\ importError' = importError
    /\ imports' = Append(imports, NewImport(NoFile, "Idle", "none"))

\* lines 137-140: the event carries no file
FileEventWithoutFile ==
    /\ importError' = "null"
    /\ imports' = Append(imports, NewImport(NoFile, "Idle", "none"))

\* lines 143-181: the reader is created, its callbacks are set, the read starts
FileEventStartsRead(file) ==
    /\ importError' = "null"
    /\ imports' = Append(imports, NewImport(file, "Reading", "pending"))

\* lines 182-185: creating the reader or starting the read threw
FileEventThrows(file) ==
    /\ importError' = ProcessingErrorMessage
    /\ imports' = Append(imports,
           [NewImport(file, "Error", "threw") EXCEPT
               !.setError = ProcessingErrorMessage,
               !.logged = "File processing error:"])

\* A handler that ignores a selection while an import is in flight.
handleFileUploadSingleFlight(file, readerThrows) ==
    /\ route = FormRoute
    /\ Len(imports) < MaxFileEvents
    /\ \A i \in 1..Len(imports) : ~InFlight(imports[i])
    /\ IF file = NoFile THEN FileEventWithoutFile
       ELSE IF readerThrows THEN FileEventThrows(file)
       ELSE FileEventStartsRead(file)
    /\ UNCHANGED <<formData, route, nodeEnv, submits, refList, lastOp>>

\* lines 136-186, up to the return of the handler
handleFileUpload(file, readerThrows) ==
    /\ route = FormRoute
    /\ Len(imports) < MaxFileEvents
    /\ IF file = NoFile THEN FileEventWithoutFile
       ELSE IF readerThrows THEN FileEventThrows(file)
       ELSE FileEventStartsRead(file)
    /\ UNCHANGED <<formData, route, nodeEnv, submits, refList, lastOp>>

\* An onerror that reports the failure with the message of the outer catch.
ReaderOnErrorOtherMessage(i) ==
    /\ imports[i].state = "Reading"
    /\ importError' = ProcessingErrorMessage
    /\ imports' = [imports EXCEPT ![i].state = "Error", ![i].read = "error",
                                  ![i].setError = ProcessingErrorMessage]
    /\ UNCHANGED <<formData, route, nodeEnv, submits, refList, lastOp>>

\* reader.onerror, lines 177-179
ReaderOnError(i) ==
    /\ imports[i].state = "Reading"
    /\ importError' = ReadErrorMessage
    /\ imports' = [imports EXCEPT ![i].state = "Error", ![i].read = "error",
                                  ![i].setError = ReadErrorMessage]
    /\ UNCHANGED <<formData, route, nodeEnv, submits, refList, lastOp>>

\* reader.onload with content the decode of lines 146-149 throws on: the async
\* callback rejects outside every try block, no state is written.
OnLoadDecodeThrows(i) ==
    /\ imports' = [imports EXCEPT ![i].state = "Rejected", ![i].read = "loaded",
                                  ![i].decode = "threw"]
    /\ UNCHANGED <<formData, importError, route, nodeEnv, submits, refList, lastOp>>

\* reader.onload, lines 145-162: the rows are wrapped and posted
OnLoadPosts(i, jsonData) ==
    /\ imports' = [imports EXCEPT
           ![i].state = "Submitting", ![i].read = "loaded", ![i].decode = "ok",
           ![i].response = "pending",
           ![i].requests = Append(@, Request(BulkUrl, StringifyBulk(jsonData)))]
    /\ UNCHANGED <<formData, importError, route, nodeEnv, submits, refList, lastOp>>

ReaderOnLoad(i, data) ==
    /\ imports[i].state = "Reading"
    /\ IF data.decodes THEN OnLoadPosts(i, data.rows) ELSE OnLoadDecodeThrows(i)

\* A catch that falls through to the navigation after logging.
ImportCatchThenNavigates(attempt) ==
    [attempt EXCEPT !.state = "Error", !.setError = ImportFailedMessage,
                    !.logged = "Import error:", !.navigated = TRUE]

\* the inner catch, lines 171-174
ImportCatch(attempt) ==
    [attempt EXCEPT !.state = "Error", !.setError = ImportFailedMessage,
                    !.logged = "Import error:"]

\* lines 164-166 and a rejected fetch, into the catch
BulkFailed(i, outcome) ==
    /\ importError' = ImportCatch(imports[i]).setError
    /\ imports' = [imports EXCEPT ![i] = [ImportCatch(@) EXCEPT !.response = outcome]]
    /\ UNCHANGED <<formData, route, nodeEnv, submits, refList, lastOp>>

\* line 168: the status is a success, response.json() is awaited
BulkResponseOk(i) ==
    /\ imports' = [imports EXCEPT ![i].state = "ParsingBody", ![i].response = "ok",
                                  ![i].parse = "pending"]
    /\ UNCHANGED <<formData, importError, route, nodeEnv, submits, refList, lastOp>>

\* the bulk fetch settles, lines 156-168
BulkSettles(i, outcome) ==
    /\ imports[i].state = "Submitting"
    /\ IF outcome = "ok" THEN BulkResponseOk(i) ELSE BulkFailed(i, outcome)

\* lines 169-170
ImportSucceeded(i) ==
    /\ imports' = [imports EXCEPT ![i].state = "Done", ![i].parse = "ok",
                                  ![i].navigated = TRUE,
                                  ![i].logged = "Import successful:"]
    /\ route' = ListingRoute
    /\ UNCHANGED <<formData, importError, nodeEnv, submits, refList, lastOp>>

\* response.json() rejected, into the catch
BodyParseFailed(i) ==
    /\ importError' = ImportCatch(imports[i]).setError
    /\ imports' = [imports EXCEPT ![i] = [ImportCatch(@) EXCEPT !.parse = "failed"]]
    /\ UNCHANGED <<formData, route, nodeEnv, submits, refList, lastOp>>

\* response.json() settles, lines 168-174
BodySettles(i, parsed) ==
    /\ imports[i].state = "ParsingBody"
    /\ IF parsed THEN ImportSucceeded(i) ELSE BodyParseFailed(i)

(***************************************************************************)
(* Specifications.                                                         *)
(***************************************************************************)
EditField == \E n \in BusinessInputNames, v \in BusinessInputValues : handleInputChange(n, v)
EditSwitch == \E n \in SwitchNames, c \in BOOLEAN : handleSwitchChange(n, c)
SubmitStep == \E s \in 1..Len(submits), o \in FetchOutcomes : SubmitSettles(s, o)
FileEvent == \E f \in Files \cup {NoFile}, t \in BOOLEAN : handleFileUpload(f, t)
ReadFails == \E i \in 1..Len(imports) : ReaderOnError(i)
ReadCompletes == \E i \in 1..Len(imports), d \in FileContents : ReaderOnLoad(i, d)
BulkStep == \E i \in 1..Len(imports), o \in FetchOutcomes : BulkSettles(i, o)
BodyStep == \E i \in 1..Len(imports), p \in BOOLEAN : BodySettles(i, p)

\* The page: form edits, the submit, the import and the Cancel button.
Next ==
    \/ EditField
    \/ EditSwitch
    \/ handleSubmit
    \/ SubmitStep
    \/ Cancel
    \/ FileEvent
    \/ ReadFails
    \/ ReadCompletes
    \/ BulkStep
    \/ BodyStep

Spec == Init /\ [][Next]_vars

\* The page under the assumption that every read, fetch and body parse that
\* was started settles.
SpecLive ==
    /\ Init /\ [][Next]_vars
    /\ WF_vars(ReadFails \/ ReadCompletes)
    /\ WF_vars(SubmitStep)
    /\ WF_vars(BulkStep)
    /\ WF_vars(BodyStep)

\* The machinery operations, called with indices of existing elements.
ChangeExisting ==
    \E i \in 0..(Len(formData.machinery) - 1), n \in InputNames, v \in InputValues :
        handleMachineChange(i, n, v)
RemoveExisting == \E i \in 0..(Len(formData.machinery) - 1) : removeMachine(i)

NextBuilder == addMachine \/ ChangeExisting \/ RemoveExisting

SpecBuilder == Init /\ [][NextBuilder]_vars

\* The machinery operations, called with any index below MaxMachines.
ChangeAny ==
    \E i \in 0..(MaxMachines - 1), n \in InputNames, v \in InputValues :
        handleMachineChange(i, n, v)
RemoveAny == \E i \in 0..(MaxMachines - 1) : removeMachine(i)

NextAnyIndex == addMachine \/ ChangeAny \/ RemoveAny

SpecAnyIndex == Init /\ [][NextAnyIndex]_vars

(***************************************************************************)
(* Properties.                                                             *)
(***************************************************************************)
Submits == 1..Len(submits)
Imports == 1..Len(imports)
\* The request body of the record a fresh form holds once "Acme" is typed
\* into the name field.
AcmeBody ==
    "{\"name\":\"Acme\",\"corporateId\":\"\",\"phone\":\"\",\"website\":\"\","
    \o "\"description\":\"\",\"businessType\":\"\",\"location\":\"\",\"email\":\"\","
    \o "\"isOpen\":true,\"openToNewBusiness\":true,\"machinery\":[]}"

\* C1: a submit whose POST returned a success status has issued exactly one
\* request, a POST to {apiBase}/api/businesses whose body is the JSON of the
\* form record as it stood when the submit was triggered (none to the bulk
\* endpoint), and has navigated to the listing route; a submit whose response
\* has not arrived has not navigated.
C1_SubmitSuccess ==
    \A s \in Submits :
        /\ submits[s].response = "ok" =>
              /\ submits[s].requests =
                    << [method |-> "POST", url |-> ApiUrl \o "/api/businesses",
                        body |-> StringifyBusiness(submits[s].formAtTrigger)] >>
              /\ submits[s].formAtTrigger = [initialBusinessForm EXCEPT !.name = "Acme"]
                    => submits[s].requests[1].body = AcmeBody
              /\ submits[s].navigated
              /\ route = ListingRoute
        /\ submits[s].response = "pending" => ~submits[s].navigated

\* A successful submit of {"name":"Acme", ...} whose form was edited while the
\* request was in flight.
C1_Witness ==
    \E s \in Submits :
        /\ submits[s].response = "ok"
        /\ submits[s].formAtTrigger = [initialBusinessForm EXCEPT !.name = "Acme"]
        /\ formData # submits[s].formAtTrigger

\* C2: the step in which the read of an import fails sets the error message to
\* exactly "Error reading file" and does not navigate, and an import whose
\* read failed never issues a request and never navigates.
C2_ReadFailure ==
    /\ [][\A i \in Imports :
            (imports[i].read = "pending" /\ imports'[i].read = "error") =>
                /\ importError' = "Error reading file"
                /\ route' = route]_vars
    /\ [](\A i \in Imports :
            imports[i].read = "error" =>
                /\ imports[i].requests = <<>>
                /\ ~imports[i].navigated
                /\ imports[i].setError = "Error reading file")

\* A failed read that left its message on the page.
C2_Witness ==
    \E i \in Imports :
        /\ imports[i].read = "error"
        /\ importError = "Error reading file"
        /\ route = FormRoute

\* C3: the step in which the bulk endpoint answers with a non-success status,
\* or in which the body of its success answer fails to parse, sets the error
\* message to exactly "Failed to import businesses. Please check your
\* spreadsheet format." and does not navigate; such an import never navigates.
C3_BulkFailure ==
    /\ [][\A i \in Imports :
            (\/ imports[i].response = "pending" /\ imports'[i].response = "notOk"
             \/ imports[i].parse = "pending" /\ imports'[i].parse = "failed")
            =>  /\ importError' =
                      "Failed to import businesses. Please check your spreadsheet format."
                /\ route' = route]_vars
    /\ [](\A i \in Imports :
            (imports[i].response = "notOk" \/ imports[i].parse = "failed") =>
                /\ ~imports[i].navigated
                /\ imports[i].state = "Error")

\* Both failures of C3, each with its message on the page.
C3_Witness ==
    /\ Len(imports) = 2
    /\ imports[1].response = "notOk"
    /\ imports[2].parse = "failed"
    /\ importError = ImportFailedMessage
    /\ route = FormRoute

\* C4: an import whose decode threw after the read completed is in the Error
\* state with the message "Error processing file", and has issued no bulk POST.
C4_DecodeFailureReported ==
    \A i \in Imports :
        imports[i].decode = "threw" =>
            /\ imports[i].state = "Error"
            /\ imports[i].setError = "Error processing file"
            /\ importError = "Error processing file"
            /\ imports[i].requests = <<>>

\* C5: after any sequence of addMachine, removeMachine and setMachineField
\* calls on existing elements, the machinery list is the reference list.
C5_MatchesReference == formData.machinery = AsArray(refList)

\* The middle one of three edited machines was removed.
C5_Witness ==
    /\ lastOp = [op |-> "remove", index |-> 1]
    /\ Len(formData.machinery) = 2
    /\ formData.machinery[1].props.name = "Lathe"
    /\ formData.machinery[2].props.name = "Mill"
    /\ formData.machinery[2].props.manufacturer = "Lathe"

NoHoles(arr) == \A k \in 1..Len(arr) : arr[k].kind = "object"

\* C6: setMachineField never changes the length of the machinery list and
\* creates no hole, whatever the index.
C6_SetNeverGrows ==
    [][lastOp'.op = "set" =>
          /\ Len(formData'.machinery) = Len(formData.machinery)
          /\ NoHoles(formData.machinery) => NoHoles(formData'.machinery)]_vars

\* C7: the step in which a submit fails changes neither the error message,
\* the route nor the form record and issues no request; a failed submit has
\* issued its one request only and has not navigated.
C7_SubmitFailureSilent ==
    /\ [][\A s \in Submits :
            (submits[s].response = "pending"
                /\ submits'[s].response \in {"notOk", "networkError"}) =>
                /\ importError' = importError
                /\ route' = route
                /\ formData' = formData
                /\ submits'[s].requests = submits[s].requests
                /\ imports' = imports]_vars
    /\ [](\A s \in Submits :
            submits[s].response \in {"notOk", "networkError"} =>
                /\ Len(submits[s].requests) = 1
                /\ ~submits[s].navigated)

\* A failed submit next to the message an import left.
C7_Witness ==
    \E s \in Submits :
        /\ submits[s].response = "notOk"
        /\ importError = ImportFailedMessage
        /\ route = FormRoute

\* C8: after a file-selection event the error message is what that event set
\* (none, unless the event itself failed): an earlier message is gone.  An
\* event without a file leaves no message, its pipeline stays Idle, starts no
\* read and issues no request, and the step changes nothing else.
C8_FileEventClears ==
    /\ [][Len(imports') = Len(imports) + 1 =>
            LET new == imports'[Len(imports')] IN
            /\ importError' = new.setError
            /\ new.file = NoFile =>
                  /\ importError' = "null"
                  /\ route' = route
                  /\ submits' = submits
                  /\ \A i \in Imports : imports'[i] = imports[i]]_vars
    /\ [](\A i \in Imports :
            imports[i].file = NoFile =>
                /\ imports[i].state = "Idle"
                /\ imports[i].read = "none"
                /\ imports[i].requests = <<>>
                /\ ~imports[i].navigated)

\* An event without a file came after an import had left a message, and the
\* message is gone.
C8_Witness ==
    /\ Len(imports) = 2
    /\ imports[1].setError # "null"
    /\ imports[2].file = NoFile
    /\ importError = "null"

\* C9: a file selection is possible while an earlier import is in flight and
\* leaves the earlier imports as they are, and every import whose decode
\* succeeded has issued its own single POST to the bulk endpoint.
C9_NoConcurrencyGuard ==
    /\ [][Len(imports') = Len(imports) + 1 =>
            \A i \in Imports : imports'[i] = imports[i]]_vars
    /\ []((route = FormRoute /\ Len(imports) < MaxFileEvents) =>
            ENABLED (\E f \in Files : handleFileUpload(f, FALSE)))
    /\ [](\A i \in Imports :
            imports[i].decode = "ok" =>
                /\ Len(imports[i].requests) = 1
                /\ imports[i].requests[1].url = ApiUrl \o "/api/businesses/bulk")

\* Two imports in flight, each with its own bulk POST sent.
C9_Witness ==
    /\ Len(imports) = 2
    /\ imports[1].state = "Submitting" /\ Len(imports[1].requests) = 1
    /\ imports[2].state = "Submitting" /\ Len(imports[2].requests) = 1

\* C10: an import started by selecting a file that is no longer Reading,
\* Submitting or parsing has navigated or has set an error message.
C10_EndsWithNavigationOrError ==
    \A i \in Imports :
        (imports[i].file # NoFile /\ ~InFlight(imports[i])) =>
            (imports[i].navigated \/ imports[i].setError # "null")

\* The part of C10 that holds when reads, fetches and body parses settle: no
\* import stays Reading, Submitting or parsing forever.
C10_InFlightEnds ==
    \A i \in 1..MaxFileEvents :
        (i <= Len(imports) /\ InFlight(imports[i]))
            ~> (i <= Len(imports) /\ ~InFlight(imports[i]))

====
